---- MODULE Spec2Model ----
(***************************************************************************)
(* A model of the SAT solver of src/SAT_cnf.py: the clause data model, the *)
(* SOP parser, the gate-consistency (Tseitin) encoder, the clause          *)
(* evaluator, unit propagation, the recursive and the explicit-stack DPLL  *)
(* engines, solution enumeration by blocking clauses and the XOR           *)
(* equivalence check.                                                      *)
(*                                                                         *)
(* A Python dict is a TLA+ function; a dict whose keys are 1..n (every     *)
(* assignment dict is built that way by all_undecided) is a sequence, and  *)
(* the empty dict {} is <<>>.  A clause's data dict is kept as the function *)
(* data together with keys, its keys in insertion order (the order a loop  *)
(* over the dict follows).  A Clause object is a record of these and its   *)
(* isUnit flag (the number field is always 0 and is never read).           *)
(* random.choice is a nondeterministic choice (\E).                        *)
(***************************************************************************)
EXTENDS Integers, Sequences, FiniteSets, TLC

\* ------------------------------------------------------------------ bounds
\* Largest variable index of the CNF formulas handed directly to the engines.
MaxVar == 2
\* Largest number of clauses of those formulas.
MaxClauses == 2
\* Largest number of pieces (literals, '+', '.') of an SOP text.
MaxTokens == 3
\* Largest number of pieces (literals, '+', '.', ' ') of a text that is only parsed.
MaxParseTokens == 4

\* --------------------------------------------------------------- constants
POS_LIT == 1
NEG_LIT == 0
\* Python's None (an unassigned variable): no truth value and no variable index.
None == -1
SAT == "SAT"
UNSAT == "UNSAT"
UNDECIDED == "UNDECIDED"

VARIABLES
    pc,                \* where the driver / engine stands
    formula,           \* the CNF as it was handed to the engine (never mutated)
    clauses,           \* the caller's clause list, a mutable list of Clause objects
    original_clauses,  \* the module global written by dpll_rec
    assignments,       \* the assignment dict shared by all dpll_rec frames
    frames,            \* suspended dpll_rec calls: the decision, the line waited at
                       \* and, as a record for comparison on return (the program
                       \* keeps no such copy), the assignment given to the callee
    ret,               \* the value the last finished dpll_rec call returned
    stack,             \* dpll_iterative's work stack: the dict objects on it, by identity
    heap,              \* the contents of the dict objects the stack refers to
    result,            \* the driver's result variable: outcome of the last engine call
    rec_outcome,       \* what the driver remembers of dpll_rec's outcome
    solutions,         \* find_all_SAT's list of solutions
    text,              \* the SOP string read (function1 of an XOR file)
    text2,             \* function2 of an XOR file
    sop_clauses,       \* the product terms parsed from text
    cnf1,              \* the ClauseList object built from function1
    cnf2,              \* the ClauseList object built from function2
    find_all,          \* the all-solutions flag: main's args.all_sop / args.all_dimacs,
                       \* the find_all of boolean_functions_are_equivalent
    req_ones,          \* the positive variables of a clause-construction request
    req_zeros          \* the negative variables of a clause-construction request

\* What the engines never write: the inputs of the front end.
ivars == <<text, text2, sop_clauses, cnf1, cnf2, find_all, req_ones, req_zeros>>

vars == <<pc, formula, clauses, original_clauses, assignments, frames, ret,
          stack, heap, result, rec_outcome, solutions, ivars>>

\* ------------------------------------------------------------ small helpers
SetMax(S) == CHOOSE m \in S : \A x \in S : x <= m

SeqsUpTo(S, n) == UNION {[1..k -> S] : k \in 0..n}

RemoveAt(s, i) == [k \in 1..(Len(s) - 1) |-> IF k < i THEN s[k] ELSE s[k + 1]]

\* The elements of a set of integers in increasing order (the order CPython
\* iterates a set of small non-negative ints in).
RECURSIVE SortedSeq(_)
SortedSeq(S) ==
    IF S = {} THEN <<>>
    ELSE LET lo == CHOOSE x \in S : \A y \in S : x <= y
         IN  <<lo>> \o SortedSeq(S \ {lo})

\* An outcome of a call: it returned a value, or it raised.
Returned(v) == [status |-> "returned", value |-> v]
Raised(e) == [status |-> "raised", value |-> e]
Pending == [status |-> "pending", value |-> <<>>]

\* ------------------------------------------------------------- data model
\* Clause.__init__: data as given, isUnit False.
Clause(d) == [data |-> d.data, keys |-> d.keys, isUnit |-> FALSE]

\* make_CNF_dict: the positives are entered first, the negatives second, so a
\* variable listed in both keeps the place of the positive entry and ends up
\* negative.  data is the dict, keys its insertion order: set(ones) and
\* set(zeros) are walked in increasing order, which is the order CPython gives
\* a small set of indices below 8 (all the indices the specifications reach).
make_CNF_dict(ones, zeros) ==
    [data |-> [var_i \in (ones \cup zeros) |->
                    IF var_i \in zeros THEN NEG_LIT ELSE POS_LIT],
     keys |-> SortedSeq(ones) \o SortedSeq(zeros \ ones)]

make_CNF_clause(ones, zeros) == Clause(make_CNF_dict(ones, zeros))

\* --------------------------------------------------------- clause evaluator
\* Faulty variant of values_of_literals: the value of a negative literal is not flipped.
values_of_literals_unflipped(clause, asg) ==
    [current_literal \in DOMAIN clause.data |-> asg[current_literal]]

values_of_literals(clause, asg) ==
    [current_literal \in DOMAIN clause.data |->
        IF clause.data[current_literal] = NEG_LIT /\ asg[current_literal] = POS_LIT
            THEN NEG_LIT
        ELSE IF clause.data[current_literal] = NEG_LIT /\ asg[current_literal] = NEG_LIT
            THEN POS_LIT
        ELSE asg[current_literal]]

\* Faulty variant of clause_value: a clause with one literal left open is already UNSAT.
clause_value_unit_is_unsat(clause, asg) ==
    LET literals_and_assignments == values_of_literals(clause, asg)
        lits == DOMAIN clause.data
        anyTrue == \E l \in lits : literals_and_assignments[l] = POS_LIT
        countFalse == Cardinality({l \in lits : literals_and_assignments[l] = NEG_LIT})
    IN  IF anyTrue THEN [value |-> SAT, clause |-> clause]
        ELSE [value |-> IF countFalse >= Cardinality(lits) - 1 THEN UNSAT ELSE UNDECIDED,
              clause |-> clause]

\* Faulty variant of clause_value: an unassigned literal counts as a false one.
clause_value_none_is_false(clause, asg) ==
    LET literals_and_assignments == values_of_literals(clause, asg)
        lits == DOMAIN clause.data
        anyTrue == \E l \in lits : literals_and_assignments[l] = POS_LIT
        countFalse == Cardinality({l \in lits : literals_and_assignments[l] # POS_LIT})
    IN  IF anyTrue THEN [value |-> SAT, clause |-> clause]
        ELSE [value |-> IF countFalse = Cardinality(lits) THEN UNSAT ELSE UNDECIDED,
              clause |-> clause]

\* clause_value: the value it returns and the clause object as it leaves it
\* (isUnit is set when no literal is true and exactly one is not false; it is
\* never cleared).
clause_value(clause, asg) ==
    LET literals_and_assignments == values_of_literals(clause, asg)
        lits == DOMAIN clause.data
        anyTrue == \E l \in lits : literals_and_assignments[l] = POS_LIT
        countFalse == Cardinality({l \in lits : literals_and_assignments[l] = NEG_LIT})
    IN  IF anyTrue THEN [value |-> SAT, clause |-> clause]
        ELSE [value |-> IF countFalse = Cardinality(lits) THEN UNSAT ELSE UNDECIDED,
              clause |-> IF countFalse = Cardinality(lits) - 1
                            THEN [clause EXCEPT !.isUnit = TRUE]
                            ELSE clause]

\* find_maximum_literal raises ValueError (max of an empty sequence) on an
\* empty list and on a list holding a clause without literals.
find_maximum_literal_raises(cls) ==
    cls = <<>> \/ \E i \in DOMAIN cls : DOMAIN cls[i].data = {}

find_maximum_literal(cls) ==
    SetMax({SetMax(DOMAIN cls[i].data) : i \in DOMAIN cls})

\* all_undecided: {} for the empty list, else every index 1..max set to None.
all_undecided_raises(cls) == cls # <<>> /\ find_maximum_literal_raises(cls)

\* Faulty variant of all_undecided: one index too many.
all_undecided_one_more(cls) ==
    IF cls = <<>> THEN <<>>
    ELSE [i \in 1..(find_maximum_literal(cls) + 1) |-> None]

all_undecided(cls) ==
    IF cls = <<>> THEN <<>>
    ELSE [i \in 1..find_maximum_literal(cls) |-> None]

\* decide_literal: the set of values random.choice may return; {None} when
\* no variable is undecided.
decide_literal(cls, decisions) ==
    LET undecided == {xi \in DOMAIN decisions : decisions[xi] = None}
    IN  IF undecided = {} THEN {None} ELSE undecided

\* ---------------------------------------------------------- unit propagation
\* Faulty variant of strike_complement: no literal is struck.
strike_complement_none(cls, lit, polarity) == cls

\* The inner loop of unit_propagate: strike lit's complement from every clause.
strike_complement(cls, lit, polarity) ==
    [j \in DOMAIN cls |->
        IF lit \in DOMAIN cls[j].data /\ cls[j].data[lit] # polarity
        THEN [cls[j] EXCEPT
                !.data = [k \in (DOMAIN cls[j].data) \ {lit} |-> cls[j].data[k]],
                !.keys = SelectSeq(cls[j].keys, LAMBDA k : k # lit)]
        ELSE cls[j]]

\* unit_propagate from index i on (i is 1-based here).  A flagged clause with
\* an unassigned literal gets its first unassigned variable (dict order is
\* 1..max) assigned so that the literal is true, is deleted, and the scan goes
\* on at the same index; a flagged clause without one is skipped.
RECURSIVE unit_propagate_from(_, _, _)
unit_propagate_from(i, cls, asg) ==
    IF i > Len(cls) THEN [clauses |-> cls, assignments |-> asg]
    ELSE LET open == {lit \in DOMAIN asg : asg[lit] = None /\ lit \in DOMAIN cls[i].data}
         IN  IF cls[i].isUnit /\ open # {}
             THEN LET lit == CHOOSE l \in open : \A m \in open : l <= m
                      polarity == cls[i].data[lit]
                      asg2 == [asg EXCEPT ![lit] = IF polarity = POS_LIT THEN 1 ELSE 0]
                      cls2 == strike_complement(RemoveAt(cls, i), lit, polarity)
                  IN  unit_propagate_from(i, cls2, asg2)
             ELSE unit_propagate_from(i + 1, cls, asg)

unit_propagate(cls, asg) == unit_propagate_from(1, cls, asg)

\* ------------------------------------------------------------ dpll_rec
\* The clause loop of dpll_rec (lines 473-482): it evaluates the deep copy oc,
\* which is where clause_value leaves the unit flag, while unit_propagate is
\* handed the caller's list cls.  It stops at the first UNSAT clause.
\* Faulty variant of dpll_rec_loop: the unit flag clause_value sets is also
\* seen on the caller's clause (as if the copy shared the Clause objects), so
\* unit_propagate finds flagged clauses.
RECURSIVE dpll_rec_loop_shared_flags(_, _, _, _, _)
dpll_rec_loop_shared_flags(i, oc, cls, asg, anyUndecidedClause) ==
    IF i > Len(oc)
    THEN [unsat |-> FALSE, original_clauses |-> oc, clauses |-> cls,
          assignments |-> asg, anyUndecidedClause |-> anyUndecidedClause]
    ELSE LET cv == clause_value(oc[i], asg)
             flagged == IF i \in DOMAIN cls
                        THEN [cls EXCEPT ![i].isUnit = cv.clause.isUnit]
                        ELSE cls
             up == IF cv.value = UNDECIDED /\ cv.clause.isUnit
                   THEN unit_propagate(flagged, asg)
                   ELSE [clauses |-> flagged, assignments |-> asg]
         IN  IF cv.value = UNSAT
             THEN [unsat |-> TRUE, original_clauses |-> [oc EXCEPT ![i] = cv.clause],
                   clauses |-> cls,
                   assignments |-> asg, anyUndecidedClause |-> anyUndecidedClause]
             ELSE CHOOSE out \in
                    {dpll_rec_loop_shared_flags(i + 1, oc2, u.clauses, u.assignments, any2) :
                        oc2 \in {[oc EXCEPT ![i] = cv.clause]},
                        u \in {up},
                        any2 \in {anyUndecidedClause \/ cv.value = UNDECIDED}} : TRUE

RECURSIVE dpll_rec_loop(_, _, _, _, _)
dpll_rec_loop(i, oc, cls, asg, anyUndecidedClause) ==
    IF i > Len(oc)
    THEN [unsat |-> FALSE, original_clauses |-> oc, clauses |-> cls,
          assignments |-> asg, anyUndecidedClause |-> anyUndecidedClause]
    ELSE LET cv == clause_value(oc[i], asg)
             up == IF cv.value = UNDECIDED /\ cv.clause.isUnit
                   THEN unit_propagate(cls, asg)
                   ELSE [clauses |-> cls, assignments |-> asg]
         IN  IF cv.value = UNSAT
             THEN [unsat |-> TRUE, original_clauses |-> [oc EXCEPT ![i] = cv.clause],
                   clauses |-> cls,
                   assignments |-> asg, anyUndecidedClause |-> anyUndecidedClause]
             ELSE \* the state of the loop after this clause, each part worked
                  \* out once, goes into the next round
                  CHOOSE out \in
                    {dpll_rec_loop(i + 1, oc2, u.clauses, u.assignments, any2) :
                        oc2 \in {[oc EXCEPT ![i] = cv.clause]},
                        u \in {up},
                        any2 \in {anyUndecidedClause \/ cv.value = UNDECIDED}} : TRUE

\* One call of dpll_rec up to its first return or to the decision (lines
\* 460-496).  kind is "raise", "return" (with value) or "decide".
dpll_rec_body(cls, asg) ==
    IF asg = <<>> /\ all_undecided_raises(cls)
    THEN [kind |-> "raise", value |-> "ValueError", original_clauses |-> cls,
          clauses |-> cls, assignments |-> asg]
    ELSE LET a0 == IF asg = <<>> THEN all_undecided(cls) ELSE asg
         IN  IF cls = <<>>
             THEN [kind |-> "return", value |-> a0, original_clauses |-> cls,
                   clauses |-> cls, assignments |-> a0]
             ELSE LET p == dpll_rec_loop(1, cls, cls, a0, FALSE)
                      out(kind, value) ==
                          [kind |-> kind, value |-> value,
                           original_clauses |-> p.original_clauses,
                           clauses |-> p.clauses, assignments |-> p.assignments]
                  IN  IF p.unsat THEN out("return", <<>>)
                      ELSE IF ~p.anyUndecidedClause THEN out("return", p.assignments)
                      ELSE IF decide_literal(p.clauses, p.assignments) = {None}
                           THEN out("return", <<>>)
                      ELSE out("decide", <<>>)

\* dpll_rec raises (all_undecided on a clause without literals).
RecCallRaise ==
    /\ pc = "rec_call"
    /\ assignments = <<>>
    /\ all_undecided_raises(clauses)
    /\ LET b == dpll_rec_body(clauses, assignments)
       IN  /\ b.kind = "raise"
           /\ original_clauses' = b.original_clauses
           /\ result' = Raised(b.value)
           /\ rec_outcome' = "raised"
           /\ pc' = "rec_raised"
    /\ UNCHANGED <<solutions, ivars, formula, clauses, assignments, frames, ret, stack, heap>>

\* dpll_rec returns without deciding: no clauses, an UNSAT clause, or every
\* clause SAT.
RecCallReturn ==
    /\ pc = "rec_call"
    /\ \E b \in {dpll_rec_body(clauses, assignments)} :
           /\ b.kind = "return"
           /\ original_clauses' = b.original_clauses
           /\ clauses' = b.clauses
           /\ assignments' = b.assignments
           /\ ret' = b.value
           /\ pc' = "rec_ret"
    /\ UNCHANGED <<solutions, ivars, formula, frames, stack, heap, result, rec_outcome>>

\* dpll_rec decides xi, sets it to 1 and calls itself (lines 491-499).
RecCallDecide ==
    /\ pc = "rec_call"
    /\ \E b \in {dpll_rec_body(clauses, assignments)} :
           /\ b.kind = "decide"
           /\ \E xi \in decide_literal(b.clauses, b.assignments) :
                /\ assignments' = [b.assignments EXCEPT ![xi] = 1]
                /\ frames' = Append(frames, [xi |-> xi, line |-> 499,
                                             given |-> [b.assignments EXCEPT ![xi] = 1]])
           /\ original_clauses' = b.original_clauses
           /\ clauses' = b.clauses
           /\ pc' = "rec_call"
    /\ UNCHANGED <<solutions, ivars, formula, ret, stack, heap, result, rec_outcome>>

\* The call made at line 499 or 504 returned a non-empty dict: return it.
RecReturnSAT ==
    /\ pc = "rec_ret"
    /\ frames # <<>>
    /\ ret # <<>>
    /\ frames' = SubSeq(frames, 1, Len(frames) - 1)
    /\ UNCHANGED <<solutions, ivars, pc, formula, clauses, original_clauses, assignments, ret,
                   stack, heap, result, rec_outcome>>

\* Faulty variant of RecTryZero: xi = 0 is not tried, the decision is undone.
RecTryZero_gives_up ==
    /\ pc = "rec_ret"
    /\ frames # <<>>
    /\ ret = <<>>
    /\ frames[Len(frames)].line = 499
    /\ assignments' = [assignments EXCEPT ![frames[Len(frames)].xi] = None]
    /\ frames' = SubSeq(frames, 1, Len(frames) - 1)
    /\ UNCHANGED <<solutions, ivars, pc, formula, clauses, original_clauses, ret, stack, heap, result, rec_outcome>>

\* The call made at line 499 returned {}: try xi = 0 (lines 503-504).
RecTryZero ==
    /\ pc = "rec_ret"
    /\ frames # <<>>
    /\ ret = <<>>
    /\ frames[Len(frames)].line = 499
    /\ assignments' = [assignments EXCEPT ![frames[Len(frames)].xi] = 0]
    /\ frames' = [frames EXCEPT
                    ![Len(frames)].line = 504,
                    ![Len(frames)].given = [assignments EXCEPT ![frames[Len(frames)].xi] = 0]]
    /\ pc' = "rec_call"
    /\ UNCHANGED <<solutions, ivars, formula, clauses, original_clauses, ret, stack, heap, result, rec_outcome>>

\* Faulty variant of RecUndo: after both values failed, xi = 1 is tried again
\* instead of returning {}.
RecUndo_retries ==
    /\ pc = "rec_ret"
    /\ frames # <<>>
    /\ ret = <<>>
    /\ frames[Len(frames)].line = 504
    /\ assignments' = [assignments EXCEPT ![frames[Len(frames)].xi] = 1]
    /\ frames' = [frames EXCEPT
                    ![Len(frames)].line = 499,
                    ![Len(frames)].given = [assignments EXCEPT ![frames[Len(frames)].xi] = 1]]
    /\ pc' = "rec_call"
    /\ UNCHANGED <<solutions, ivars, formula, clauses, original_clauses, ret, stack, heap, result, rec_outcome>>

\* Faulty variant of RecUndo: {} is returned with the decision left in place.
RecUndo_keeps_decision ==
    /\ pc = "rec_ret"
    /\ frames # <<>>
    /\ ret = <<>>
    /\ frames[Len(frames)].line = 504
    /\ frames' = SubSeq(frames, 1, Len(frames) - 1)
    /\ UNCHANGED <<solutions, ivars, pc, formula, clauses, original_clauses, assignments, ret,
                   stack, heap, result, rec_outcome>>

\* The call made at line 504 returned {} too: undo the decision, return {}.
RecUndo ==
    /\ pc = "rec_ret"
    /\ frames # <<>>
    /\ ret = <<>>
    /\ frames[Len(frames)].line = 504
    /\ assignments' = [assignments EXCEPT ![frames[Len(frames)].xi] = None]
    /\ frames' = SubSeq(frames, 1, Len(frames) - 1)
    /\ UNCHANGED <<solutions, ivars, pc, formula, clauses, original_clauses, ret, stack, heap, result, rec_outcome>>

\* ------------------------------------------------------- dpll_iterative
\* The clause loop of dpll_iterative (lines 535-543): clause_value is called
\* on the caller's own clause objects and the loop breaks at the first UNSAT
\* clause.
RECURSIVE dpll_iterative_loop(_, _, _, _)
dpll_iterative_loop(i, cls, asg, anyUndecidedClause) ==
    IF i > Len(cls)
    THEN [unsat |-> FALSE, clauses |-> cls, anyUndecidedClause |-> anyUndecidedClause]
    ELSE LET cv == clause_value(cls[i], asg)
             cls2 == [cls EXCEPT ![i] = cv.clause]
         IN  IF cv.value = UNSAT
             THEN [unsat |-> TRUE, clauses |-> cls2, anyUndecidedClause |-> anyUndecidedClause]
             ELSE dpll_iterative_loop(i + 1, cls2, asg,
                                      anyUndecidedClause \/ cv.value = UNDECIDED)

\* Faulty variant of ItStartEmpty: the empty clause list goes on to
\* all_undecided and decide_literal, whose result fails the assert.
ItStartEmpty_asserts ==
    /\ pc = "it_start"
    /\ clauses = <<>>
    /\ result' = Raised("AssertionError")
    /\ pc' = "it_raised"
    /\ UNCHANGED <<solutions, ivars, formula, clauses, original_clauses, assignments, frames, ret,
                   stack, heap, rec_outcome>>

\* Lines 517-521: the empty clause list is answered {} at once.
ItStartEmpty ==
    /\ pc = "it_start"
    /\ clauses = <<>>
    /\ result' = Returned(<<>>)
    /\ pc' = "it_done"
    /\ UNCHANGED <<solutions, ivars, formula, clauses, original_clauses, assignments, frames, ret,
                   stack, heap, rec_outcome>>

\* Line 522: all_undecided raises on a clause without literals.
ItStartRaise ==
    /\ pc = "it_start"
    /\ all_undecided_raises(clauses)
    /\ result' = Raised("ValueError")
    /\ pc' = "it_raised"
    /\ UNCHANGED <<solutions, ivars, formula, clauses, original_clauses, assignments, frames, ret,
                   stack, heap, rec_outcome>>

\* A dict object not referred to by any object of live. Which identity a new
\* object gets is immaterial; the least free one is taken.
new_object(live) ==
    CHOOSE id \in 1..(Cardinality(live) + 1) :
        id \notin live /\ \A j \in 1..(id - 1) : j \in live

\* The objects a stack refers to, and the heap cut down to them (a dict no
\* longer referred to is gone).
objects_on(st) == {st[i] : i \in DOMAIN st}
live_only(hp, st) == [id \in objects_on(st) |-> hp[id]]

\* Faulty variant of ItStartPush: only the branch starting_xi = 1 is pushed.
ItStartPush_one_branch ==
    /\ pc = "it_start"
    /\ clauses # <<>>
    /\ ~all_undecided_raises(clauses)
    /\ LET assignments1 == all_undecided(clauses)
       IN  \E starting_xi \in decide_literal(clauses, assignments1) :
             /\ stack' = <<new_object({})>>
             /\ heap' = [id \in {new_object({})} |-> [assignments1 EXCEPT ![starting_xi] = 1]]
    /\ pc' = "it_loop"
    /\ UNCHANGED <<solutions, ivars, formula, clauses, original_clauses, assignments, frames, ret,
                   result, rec_outcome>>

\* Lines 522-532: the first decision is taken before any clause is looked at;
\* assignments2 is a copy of assignments1, so two objects are pushed, the one
\* with 0 on top.
ItStartPush ==
    /\ pc = "it_start"
    /\ clauses # <<>>
    /\ ~all_undecided_raises(clauses)
    /\ LET assignments1 == all_undecided(clauses)
       IN  \E starting_xi \in decide_literal(clauses, assignments1) :
             LET o1 == new_object({})
                 o2 == new_object({o1})
             IN  /\ stack' = <<o1, o2>>
                 /\ heap' = [id \in {o1, o2} |->
                               [assignments1 EXCEPT ![starting_xi] = IF id = o1 THEN 1 ELSE 0]]
    /\ pc' = "it_loop"
    /\ UNCHANGED <<solutions, ivars, formula, clauses, original_clauses, assignments, frames, ret,
                   result, rec_outcome>>

\* One loop iteration up to its continue, return or decision.
dpll_iterative_body(cls, st, hp) ==
    LET current_assignments == hp[st[Len(st)]]
        p == dpll_iterative_loop(1, cls, current_assignments, FALSE)
    IN  [current_assignments |-> current_assignments,
         clauses |-> p.clauses,
         kind |-> IF p.unsat THEN "continue"
                  ELSE IF ~p.anyUndecidedClause THEN "sat"
                  ELSE IF decide_literal(p.clauses, current_assignments) = {None}
                       THEN "no_literal"
                  ELSE "decide"]

\* Lines 546-549: a clause is UNSAT under the popped assignment: drop it.
ItLoopContinue ==
    /\ pc = "it_loop"
    /\ stack # <<>>
    /\ LET b == dpll_iterative_body(clauses, stack, heap)
       IN  /\ b.kind = "continue"
           /\ clauses' = b.clauses
           /\ stack' = SubSeq(stack, 1, Len(stack) - 1)
           /\ heap' = live_only(heap, stack')
    /\ UNCHANGED <<solutions, ivars, pc, formula, original_clauses, assignments, frames, ret,
                   result, rec_outcome>>

\* Lines 551-554 and 559-562: return the popped assignment when no clause is
\* undecided ({} when a clause is undecided and no variable is).
ItLoopReturn ==
    /\ pc = "it_loop"
    /\ stack # <<>>
    /\ LET b == dpll_iterative_body(clauses, stack, heap)
       IN  /\ b.kind \in {"sat", "no_literal"}
           /\ clauses' = b.clauses
           /\ stack' = SubSeq(stack, 1, Len(stack) - 1)
           /\ heap' = live_only(heap, stack')
           /\ result' = Returned(IF b.kind = "sat" THEN b.current_assignments ELSE <<>>)
    /\ pc' = "it_done"
    /\ UNCHANGED <<solutions, ivars, formula, original_clauses, assignments, frames, ret, rec_outcome>>

\* Faulty variant of ItLoopDecide: assignments2 is the popped dict itself, not
\* a copy of it, so the same object is pushed twice and xi = 0 is written
\* over xi = 1.
ItLoopDecide_no_copy ==
    /\ pc = "it_loop"
    /\ stack # <<>>
    /\ LET b == dpll_iterative_body(clauses, stack, heap)
           current == stack[Len(stack)]
       IN  /\ b.kind = "decide"
           /\ clauses' = b.clauses
           /\ \E xi \in decide_literal(b.clauses, b.current_assignments) :
                /\ stack' = SubSeq(stack, 1, Len(stack) - 1) \o <<current, current>>
                /\ heap' = live_only([heap EXCEPT ![current][xi] = 0], stack')
    /\ UNCHANGED <<solutions, ivars, pc, formula, original_clauses, assignments, frames, ret,
                   result, rec_outcome>>

\* Lines 558-573: decide xi; the popped dict object is written xi = 1 and goes
\* back on the stack (the write is seen through every reference to that
\* object), a copy of it written xi = 0 is a new object and goes on top.
ItLoopDecide ==
    /\ pc = "it_loop"
    /\ stack # <<>>
    /\ LET b == dpll_iterative_body(clauses, stack, heap)
           current == stack[Len(stack)]
           rest == SubSeq(stack, 1, Len(stack) - 1)
           assignments2 == new_object(objects_on(stack))
       IN  /\ b.kind = "decide"
           /\ clauses' = b.clauses
           /\ \E xi \in decide_literal(b.clauses, b.current_assignments) :
                LET written == [heap EXCEPT ![current][xi] = 1]
                IN  /\ stack' = rest \o <<current, assignments2>>
                    /\ heap' = [id \in objects_on(stack') |->
                                  IF id = assignments2
                                  THEN [written[current] EXCEPT ![xi] = 0]
                                  ELSE written[id]]
    /\ UNCHANGED <<solutions, ivars, pc, formula, original_clauses, assignments, frames, ret,
                   result, rec_outcome>>

\* Lines 574-575: the stack ran empty.
ItLoopExhausted ==
    /\ pc = "it_loop"
    /\ stack = <<>>
    /\ result' = Returned(<<>>)
    /\ pc' = "it_done"
    /\ UNCHANGED <<solutions, ivars, formula, clauses, original_clauses, assignments, frames, ret,
                   stack, heap, rec_outcome>>

\* ------------------------------------------------- driver: both engines
\* As test_dpll does, each engine is handed its own freshly built list of the
\* same clauses: first dpll_rec(clauses), then dpll_iterative(clauses).

\* The top-level dpll_rec call returned.
RecDone ==
    /\ pc = "rec_ret"
    /\ frames = <<>>
    /\ result' = Returned(ret)
    /\ rec_outcome' = IF ret # <<>> THEN SAT ELSE UNSAT
    /\ pc' = "rec_done"
    /\ UNCHANGED <<solutions, ivars, formula, clauses, original_clauses, assignments, frames, ret, stack, heap>>

\* The driver builds the clauses again and calls dpll_iterative.
CallIterative ==
    /\ pc \in {"rec_done", "rec_raised"}
    /\ clauses' = formula
    /\ assignments' = <<>>
    /\ ret' = <<>>
    /\ result' = Pending
    /\ pc' = "it_start"
    /\ UNCHANGED <<solutions, ivars, formula, original_clauses, frames, stack, heap, rec_outcome>>

\* ------------------------------------------------------ the CNF formulas
Vars == 1..MaxVar

\* Every clause make_CNF_clause builds from disjoint lists of positive and
\* negative variables (two empty lists give the clause without literals).
ClauseDicts ==
    {make_CNF_dict(ones, zeros) :
        <<ones, zeros>> \in {pn \in (SUBSET Vars) \X (SUBSET Vars) : pn[1] \cap pn[2] = {}}}

Formulas == SeqsUpTo({Clause(d) : d \in ClauseDicts}, MaxClauses)

InitEngine ==
    /\ clauses = formula
    /\ original_clauses = <<>>
    /\ assignments = <<>>
    /\ frames = <<>>
    /\ ret = <<>>
    /\ stack = <<>>
    /\ heap = <<>>
    /\ result = Pending
    /\ rec_outcome = "pending"
    /\ solutions = <<>>

\* No SOP input: the clauses are handed to the engines as built.
InitNoText ==
    /\ text = <<>>
    /\ text2 = <<>>
    /\ sop_clauses = <<>>
    /\ cnf1 = <<>>
    /\ cnf2 = <<>>
    /\ find_all = FALSE
    /\ req_ones = {}
    /\ req_zeros = {}

Init ==
    /\ formula \in Formulas
    /\ pc = "rec_call"
    /\ InitEngine
    /\ InitNoText

RecNext ==
    \/ RecCallRaise
    \/ RecCallReturn
    \/ RecCallDecide
    \/ RecReturnSAT
    \/ RecTryZero
    \/ RecUndo

ItNext ==
    \/ ItStartEmpty
    \/ ItStartRaise
    \/ ItStartPush
    \/ ItLoopContinue
    \/ ItLoopReturn
    \/ ItLoopDecide
    \/ ItLoopExhausted

Next ==
    \/ RecNext
    \/ RecDone
    \/ CallIterative
    \/ ItNext

Spec == Init /\ [][Next]_vars

\* ---------------------------------------------------------- find_all_SAT
\* Faulty variant of make_blocking_clause: the test "not v" instead of
\* "v == NEG_LIT" also takes the undecided variables as positive literals.
make_blocking_clause_falsy(asg) ==
    make_CNF_clause({xi \in DOMAIN asg : asg[xi] # POS_LIT},
                    {xi \in DOMAIN asg : asg[xi] = POS_LIT})

\* Faulty variant of make_blocking_clause: the literals are not negated.
make_blocking_clause_unnegated(asg) ==
    make_CNF_clause({xi \in DOMAIN asg : asg[xi] = POS_LIT},
                    {xi \in DOMAIN asg : asg[xi] = NEG_LIT})

\* Faulty variant of make_blocking_clause: only the first decided variable is
\* negated, so the clause blocks more than the solution.
make_blocking_clause_first_only(asg) ==
    LET decided == {xi \in DOMAIN asg : asg[xi] # None}
        first == {xi \in decided : \A xj \in decided : xi <= xj}
    IN  make_CNF_clause({xi \in first : asg[xi] = NEG_LIT},
                        {xi \in first : asg[xi] = POS_LIT})

\* make_blocking_clause: the decided literals, each negated.
make_blocking_clause(asg) ==
    make_CNF_clause({xi \in DOMAIN asg : asg[xi] = NEG_LIT},
                    {xi \in DOMAIN asg : asg[xi] = POS_LIT})

\* Faulty variant of FindAllBlock: the blocking clause is put in front of the
\* caller's clauses instead of after them.
FindAllBlock_prepends ==
    /\ pc = "rec_ret"
    /\ frames = <<>>
    /\ ret # <<>>
    /\ solutions' = Append(solutions, ret)
    /\ clauses' = <<make_blocking_clause(ret)>> \o clauses
    /\ assignments' = <<>>
    /\ ret' = <<>>
    /\ pc' = "rec_call"
    /\ UNCHANGED <<ivars, formula, original_clauses, frames, stack, heap, result, rec_outcome>>

\* Lines 594-600: dpll_rec returned a non-empty solution: record it, append
\* its blocking clause to the caller's list and call dpll_rec again.
FindAllBlock ==
    /\ pc = "rec_ret"
    /\ frames = <<>>
    /\ ret # <<>>
    /\ solutions' = Append(solutions, ret)
    /\ clauses' = Append(clauses, make_blocking_clause(ret))
    /\ assignments' = <<>>
    /\ ret' = <<>>
    /\ pc' = "rec_call"
    /\ UNCHANGED <<ivars, formula, original_clauses, frames, stack, heap, result, rec_outcome>>

\* Lines 594 and 601: dpll_rec returned {}: return the solutions.
FindAllReturn ==
    /\ pc = "rec_ret"
    /\ frames = <<>>
    /\ ret = <<>>
    /\ result' = Returned(solutions)
    /\ pc' = "fa_done"
    /\ UNCHANGED <<ivars, formula, clauses, original_clauses, assignments, frames, ret,
                   stack, heap, rec_outcome, solutions>>

FindAllNext ==
    \/ RecNext
    \/ FindAllBlock
    \/ FindAllReturn

\* find_all_SAT(clauses) on every formula of the bounds.
SpecAll == Init /\ [][FindAllNext]_vars

\* ------------------------------------------------ runs to completion
\* main calls find_all_SAT when all solutions are asked for and an engine
\* otherwise (lines 1011-1044); both engines are run, as test_dpll does.
InitTerm ==
    /\ formula \in Formulas
    /\ pc = "rec_call"
    /\ InitEngine
    /\ text = <<>>
    /\ text2 = <<>>
    /\ sop_clauses = <<>>
    /\ cnf1 = <<>>
    /\ cnf2 = <<>>
    /\ find_all \in BOOLEAN
    /\ req_ones = {}
    /\ req_zeros = {}

\* One solution: the steps around and inside dpll_iterative.
SolveOnce == ~find_all /\ (RecDone \/ CallIterative \/ ItNext)

\* All solutions: the loop of find_all_SAT around dpll_rec.
SolveAll == find_all /\ (FindAllBlock \/ FindAllReturn)

NextTerm ==
    \/ RecNext
    \/ SolveOnce
    \/ SolveAll

\* The program is one synchronous thread: while a step is possible, it is
\* taken.
SpecTerm == InitTerm /\ [][NextTerm]_vars /\ WF_vars(NextTerm)

\* ------------------------------------------------------------- SOP parser
\* A text is a sequence of one-character strings.
Digits == <<"0", "1", "2", "3", "4", "5", "6", "7", "8", "9">>

IsDigit(c) == \E i \in DOMAIN Digits : Digits[i] = c

DigitValue(c) == (CHOOSE i \in DOMAIN Digits : Digits[i] = c) - 1

\* int() of a run of digits.
RECURSIVE IntOfDigits(_)
IntOfDigits(ds) ==
    IF ds = <<>> THEN 0
    ELSE 10 * IntOfDigits(SubSeq(ds, 1, Len(ds) - 1)) + DigitValue(ds[Len(ds)])

\* The characters the guard of parse_SOP_string lets through (the pattern
\* [ \r\n.~+x0-9] matched ignoring case).
IsAllowedChar(c) == c \in {" ", "\r", "\n", ".", "~", "+", "x", "X"} \/ IsDigit(c)

\* re.match(r"^([ \r\n.~+x0-9])+$", text) fails: parse_SOP_string raises.
parse_SOP_string_raises(txt) ==
    txt = <<>> \/ \E i \in DOMAIN txt : ~IsAllowedChar(txt[i])

\* text.split('+')
RECURSIVE split_plus(_, _)
split_plus(txt, current) ==
    IF txt = <<>> THEN <<current>>
    ELSE IF Head(txt) = "+" THEN <<current>> \o split_plus(Tail(txt), <<>>)
    ELSE split_plus(Tail(txt), Append(current, Head(txt)))

\* First position from q on that holds no blank.
RECURSIVE skip_blanks(_, _)
skip_blanks(term, q) ==
    IF q <= Len(term) /\ term[q] = " " THEN skip_blanks(term, q + 1) ELSE q

\* First position from q on that holds no digit.
RECURSIVE skip_digits(_, _)
skip_digits(term, q) ==
    IF q <= Len(term) /\ IsDigit(term[q]) THEN skip_digits(term, q + 1) ELSE q

\* Faulty variant of lit_match: the prefix '~' is matched but not captured.
lit_match_prefix_lost(term, p) ==
    LET prefix == term[p] = "~"
        x_at == skip_blanks(term, IF prefix THEN p + 1 ELSE p)
        stop == skip_digits(term, x_at + 1)
    IN  [ok |-> x_at <= Len(term) /\ term[x_at] \in {"x", "X"} /\ stop > x_at + 1,
         prefix |-> FALSE,
         i |-> IntOfDigits(SubSeq(term, x_at + 1, stop - 1)),
         stop |-> stop]

\* A match of lit_pattern, '(~?) *x([0-9]+)' ignoring case, starting at p.
\* When the text at p is '~' the only match possible takes it as the prefix.
lit_match(term, p) ==
    LET prefix == term[p] = "~"
        x_at == skip_blanks(term, IF prefix THEN p + 1 ELSE p)
        stop == skip_digits(term, x_at + 1)
    IN  [ok |-> x_at <= Len(term) /\ term[x_at] \in {"x", "X"} /\ stop > x_at + 1,
         prefix |-> prefix,
         i |-> IntOfDigits(SubSeq(term, x_at + 1, stop - 1)),
         stop |-> stop]

\* lit_pattern.findall(term): the non-overlapping matches from left to right.
RECURSIVE lit_findall(_, _)
lit_findall(term, p) ==
    IF p > Len(term) THEN <<>>
    ELSE LET mt == lit_match(term, p)
         IN  IF mt.ok
             THEN <<[prefix |-> mt.prefix, i |-> mt.i]>> \o lit_findall(term, mt.stop)
             ELSE lit_findall(term, p + 1)

\* Lines 177-184: one product term per '+'-separated piece.
parse_term(term) ==
    LET literals == lit_findall(term, 1)
        positives == {literals[k].i : k \in {j \in DOMAIN literals : ~literals[j].prefix}}
        negatives == {literals[k].i : k \in {j \in DOMAIN literals : literals[j].prefix}}
    IN  make_CNF_clause(positives, negatives)

parse_SOP_string(txt) ==
    LET terms == split_plus(txt, <<>>)
    IN  [k \in DOMAIN terms |-> parse_term(terms[k])]

\* ------------------------------------------------------------ GCF encoder
\* Faulty variant of add_GCF_for_and: the two-literal clauses ignore the
\* polarity of the term's literal.
add_GCF_for_and_positive(term, term_out_var_i) ==
    [n \in 1..Len(term.keys) |-> make_CNF_clause({term.keys[n]}, {term_out_var_i})]
    \o <<make_CNF_clause({x_i \in DOMAIN term.data : term.data[x_i] = NEG_LIT}
                            \cup {term_out_var_i},
                         {x_i \in DOMAIN term.data : term.data[x_i] = POS_LIT})>>

\* add_GCF_for_and: the clauses appended for one product term with output z:
\* one two-literal clause per literal in the term's dict order, then the
\* clause of all negated literals plus z.
add_GCF_for_and(term, term_out_var_i) ==
    [n \in 1..Len(term.keys) |->
        LET x_i == term.keys[n]
        IN  make_CNF_clause(IF term.data[x_i] = POS_LIT THEN {x_i} ELSE {},
                            {term_out_var_i}
                              \cup (IF term.data[x_i] = NEG_LIT THEN {x_i} ELSE {}))]
    \o <<make_CNF_clause({x_i \in DOMAIN term.data : term.data[x_i] = NEG_LIT}
                            \cup {term_out_var_i},
                         {x_i \in DOMAIN term.data : term.data[x_i] = POS_LIT})>>

\* add_GCF_for_or: or_input_vars is the sequence of the gate's input variables.
add_GCF_for_or(or_input_vars, output_var) ==
    [n \in DOMAIN or_input_vars |-> make_CNF_clause({output_var}, {or_input_vars[n]})]
    \o <<make_CNF_clause({or_input_vars[n] : n \in DOMAIN or_input_vars}, {output_var})>>

\* "".join of the AND gates of terms i..Len, in order.
RECURSIVE and_gates_from(_, _, _)
and_gates_from(productTerms, i, extra_var_i) ==
    IF i > Len(productTerms) THEN <<>>
    ELSE add_GCF_for_and(productTerms[i], extra_var_i + (i - 1))
            \o and_gates_from(productTerms, i + 1, extra_var_i)

\* Faulty variant of convert_SOP_to_CNF: the final output takes the index of
\* the last AND gate.
convert_SOP_to_CNF_output_low(productTerms) ==
    LET max_var_i == find_maximum_literal(productTerms)
        extra_var_i == max_var_i + 1
        final_output_var_i == max_var_i + Len(productTerms)
        or_input_vars == [n \in 1..Len(productTerms) |-> extra_var_i + (n - 1)]
    IN  and_gates_from(productTerms, 1, extra_var_i)
            \o add_GCF_for_or(or_input_vars, final_output_var_i)
            \o <<make_CNF_clause({final_output_var_i}, {})>>

\* convert_SOP_to_CNF raises where find_maximum_literal does: on no term and
\* on a term without literals.
convert_SOP_to_CNF_raises(productTerms) == find_maximum_literal_raises(productTerms)

convert_SOP_to_CNF(productTerms) ==
    LET max_var_i == find_maximum_literal(productTerms)
        extra_var_i == max_var_i + 1
        final_output_var_i == 1 + max_var_i + Len(productTerms)
        or_input_vars == [n \in 1..Len(productTerms) |-> extra_var_i + (n - 1)]
    IN  and_gates_from(productTerms, 1, extra_var_i)
            \o add_GCF_for_or(or_input_vars, final_output_var_i)
            \o <<make_CNF_clause({final_output_var_i}, {})>>

\* ------------------------------------------------- driver: an SOP function
\* read_sop_file: parse the text, convert the terms, hand the CNF over.

\* parse_SOP_string raises ValueError (no or forbidden characters).
ParseSOPRaise ==
    /\ pc = "parse"
    /\ parse_SOP_string_raises(text)
    /\ result' = Raised("ValueError")
    /\ pc' = "parse_raised"
    /\ UNCHANGED <<formula, clauses, original_clauses, assignments, frames, ret,
                   stack, heap, rec_outcome, solutions, ivars>>

ParseSOP ==
    /\ pc = "parse"
    /\ ~parse_SOP_string_raises(text)
    /\ sop_clauses' = parse_SOP_string(text)
    /\ pc' = "convert"
    /\ UNCHANGED <<formula, clauses, original_clauses, assignments, frames, ret,
                   stack, heap, result, rec_outcome, solutions, text, text2, cnf1, cnf2, find_all,
                   req_ones, req_zeros>>

\* convert_SOP_to_CNF raises ValueError (a term without literals).
ConvertSOPRaise ==
    /\ pc = "convert"
    /\ convert_SOP_to_CNF_raises(sop_clauses)
    /\ result' = Raised("ValueError")
    /\ pc' = "convert_raised"
    /\ UNCHANGED <<formula, clauses, original_clauses, assignments, frames, ret,
                   stack, heap, rec_outcome, solutions, ivars>>

\* The CNF is built and dpll_rec is called on it.
ConvertSOP ==
    /\ pc = "convert"
    /\ ~convert_SOP_to_CNF_raises(sop_clauses)
    /\ formula' = convert_SOP_to_CNF(sop_clauses)
    /\ clauses' = formula'
    /\ pc' = "rec_call"
    /\ UNCHANGED <<original_clauses, assignments, frames, ret, stack, heap, result,
                   rec_outcome, solutions, ivars>>

\* The SOP texts: up to MaxTokens of these pieces written one after another.
SOPTokens == {<<"x", "1">>, <<"~", "x", "1">>, <<"x", "2">>, <<"~", "x", "2">>,
              <<"+">>, <<".">>}

RECURSIVE Flatten(_)
Flatten(ss) == IF ss = <<>> THEN <<>> ELSE Head(ss) \o Flatten(Tail(ss))

SOPTexts == {Flatten(ts) : ts \in SeqsUpTo(SOPTokens, MaxTokens)}

InitSOP ==
    /\ text \in SOPTexts
    /\ text2 = <<>>
    /\ sop_clauses = <<>>
    /\ cnf1 = <<>>
    /\ cnf2 = <<>>
    /\ find_all = FALSE
    /\ req_ones = {}
    /\ req_zeros = {}
    /\ formula = <<>>
    /\ pc = "parse"
    /\ InitEngine

\* The CNF of an SOP function has no clause without literals and is never
\* empty, so the engine steps for those cases are left out.
NextSOP ==
    \/ ParseSOPRaise
    \/ ParseSOP
    \/ ConvertSOPRaise
    \/ ConvertSOP
    \/ RecCallReturn
    \/ RecCallDecide
    \/ RecReturnSAT
    \/ RecTryZero
    \/ RecUndo
    \/ RecDone
    \/ CallIterative
    \/ ItStartPush
    \/ ItLoopContinue
    \/ ItLoopReturn
    \/ ItLoopDecide

SpecSOP == InitSOP /\ [][NextSOP]_vars

\* ------------------------------------------------ driver: the parser alone
\* As test_parse_SOP_string does: parse_SOP_string is called on a text and
\* its result is looked at.  The texts also have blanks between the pieces.
ParseTokens == SOPTokens \cup {<<" ">>}

ParseTexts == {Flatten(ts) : ts \in SeqsUpTo(ParseTokens, MaxParseTokens)}

InitParse ==
    /\ text \in ParseTexts
    /\ text2 = <<>>
    /\ sop_clauses = <<>>
    /\ cnf1 = <<>>
    /\ cnf2 = <<>>
    /\ find_all = FALSE
    /\ req_ones = {}
    /\ req_zeros = {}
    /\ formula = <<>>
    /\ pc = "parse"
    /\ InitEngine

NextParse ==
    \/ ParseSOPRaise
    \/ ParseSOP

SpecParse == InitParse /\ [][NextParse]_vars

\* ------------------------------------------------------ equivalence check
\* ClauseList.__init__ raises where parse_SOP_string or convert_SOP_to_CNF does.
ClauseList_raises(sop_input) ==
    \/ parse_SOP_string_raises(sop_input)
    \/ convert_SOP_to_CNF_raises(parse_SOP_string(sop_input))

\* Lines 93-98: the number of terms before the first one whose largest
\* variable is input_max.
RECURSIVE max_index_sop_from(_, _, _)
max_index_sop_from(terms, i, input_max) ==
    IF i > Len(terms) THEN 0
    ELSE IF SetMax(DOMAIN terms[i].data) = input_max THEN 0
    ELSE 1 + max_index_sop_from(terms, i + 1, input_max)

ClauseList(sop_input) ==
    LET terms == parse_SOP_string(sop_input)
        cnf == convert_SOP_to_CNF(terms)
        input_max == find_maximum_literal(terms)
    IN  [sop_clauses |-> terms,
         cnf_clauses |-> cnf,
         input_max |-> input_max,
         max_index_sop |-> max_index_sop_from(terms, 1, input_max),
         max_cnf_index |-> Len(cnf) - 1]

\* xor_CNF_functions: the clauses of the two AND gates and of the OR gate over
\* the largest variable of each CNF; nothing else is put in the result.
xor_CNF_functions(clauses_a, clauses_b) ==
    LET a_out == find_maximum_literal(clauses_a.cnf_clauses)
        b_out == find_maximum_literal(clauses_b.cnf_clauses)
        next_literal_i == 1 + SetMax({a_out, b_out})
        not_a_yes_b_out == next_literal_i + 1
        yes_a_not_b_out == next_literal_i + 2
        or_out == next_literal_i + 3
        not_a_yes_b_clause == make_CNF_clause({b_out}, {a_out})
        yes_a_not_b_clause == make_CNF_clause({a_out}, {b_out})
    IN  add_GCF_for_and(not_a_yes_b_clause, not_a_yes_b_out)
            \o add_GCF_for_and(yes_a_not_b_clause, yes_a_not_b_out)
            \o add_GCF_for_or(<<not_a_yes_b_out, yes_a_not_b_out>>, or_out)

\* One of the two ClauseList constructions raises ValueError.
ClauseListRaise ==
    /\ pc = "eq_build"
    /\ ClauseList_raises(text) \/ ClauseList_raises(text2)
    /\ result' = Raised("ValueError")
    /\ pc' = "eq_raised"
    /\ UNCHANGED <<formula, clauses, original_clauses, assignments, frames, ret,
                   stack, heap, rec_outcome, solutions, ivars>>

\* cnf1 = ClauseList(function1); cnf2 = ClauseList(function2)
ClauseListBuild ==
    /\ pc = "eq_build"
    /\ ~ClauseList_raises(text)
    /\ ~ClauseList_raises(text2)
    /\ cnf1' = ClauseList(text)
    /\ cnf2' = ClauseList(text2)
    /\ pc' = "eq_call"
    /\ UNCHANGED <<formula, clauses, original_clauses, assignments, frames, ret,
                   stack, heap, result, rec_outcome, solutions, text, text2, sop_clauses,
                   find_all, req_ones, req_zeros>>

\* boolean_functions_are_equivalent, lines 652-661: the XOR clauses are built
\* and handed to find_all_SAT or to dpll_iterative.
EquivalentCall ==
    /\ pc = "eq_call"
    /\ formula' = xor_CNF_functions(cnf1, cnf2)
    /\ clauses' = formula'
    /\ pc' = IF find_all THEN "rec_call" ELSE "it_start"
    /\ UNCHANGED <<original_clauses, assignments, frames, ret, stack, heap, result,
                   rec_outcome, solutions, ivars>>

\* The functions compared: x1, ~x1 and a text with a term that has no literal.
\* Their XOR clauses range over 7 variables.
EquivTexts == {<<"x", "1">>, <<"~", "x", "1">>, <<"x", "1", "+">>}

InitEquiv ==
    /\ text \in EquivTexts
    /\ text2 \in EquivTexts
    /\ find_all = FALSE
    /\ req_ones = {}
    /\ req_zeros = {}
    /\ sop_clauses = <<>>
    /\ cnf1 = <<>>
    /\ cnf2 = <<>>
    /\ formula = <<>>
    /\ pc = "eq_build"
    /\ InitEngine

\* The XOR clauses have no clause without literals, are never empty and are
\* always satisfiable, so the engine steps for those cases are left out; the
\* functions are compared with find_all off, so dpll_iterative is the engine.
NextEquiv ==
    \/ ClauseListRaise
    \/ ClauseListBuild
    \/ EquivalentCall
    \/ ItStartPush
    \/ ItLoopContinue
    \/ ItLoopReturn
    \/ ItLoopDecide

SpecEquiv == InitEquiv /\ [][NextEquiv]_vars

\* ------------------------------------- driver: one clause built and evaluated
\* As test_clause_value does: a clause is built with make_CNF_clause from the
\* lists of its positive and negative variables, then clause_value is called
\* on it with one assignment after another.

\* Every assignment dict over the variables 1..MaxVar: 0, 1 or None each.
TriAssignments == [Vars -> {0, 1, None}]

\* c = make_CNF_clause(ones, zeros)
MakeClause ==
    /\ pc = "make"
    /\ clauses' = <<make_CNF_clause(req_ones, req_zeros)>>
    /\ pc' = "eval"
    /\ UNCHANGED <<formula, original_clauses, assignments, frames, ret, stack, heap, result,
                   rec_outcome, solutions, ivars>>

\* v = clause_value(c, A)
EvalClause ==
    /\ pc = "eval"
    /\ \E A \in TriAssignments :
          LET cv == clause_value(clauses[1], A)
          IN  /\ assignments' = A
              /\ clauses' = <<cv.clause>>
              /\ result' = Returned(cv.value)
    /\ UNCHANGED <<pc, formula, original_clauses, frames, ret, stack, heap, rec_outcome,
                   solutions, ivars>>

InitClause ==
    /\ req_ones \in SUBSET Vars
    /\ req_zeros \in SUBSET Vars
    /\ text = <<>>
    /\ text2 = <<>>
    /\ sop_clauses = <<>>
    /\ cnf1 = <<>>
    /\ cnf2 = <<>>
    /\ find_all = FALSE
    /\ formula = <<>>
    /\ pc = "make"
    /\ InitEngine

NextClause ==
    \/ MakeClause
    \/ EvalClause

SpecClause == InitClause /\ [][NextClause]_vars

\* ------------------------------------------ driver: unit propagation alone
\* unit_propagate(clauses, A) called on a clause list whose unit flags
\* clause_value has set under the same assignment A (the order of lines 474
\* and 482: evaluate, then propagate).

\* value = clause_value(clause, A) for every clause of the list.
FlagUnits ==
    /\ pc = "flag"
    /\ \E A \in TriAssignments :
          /\ assignments' = A
          /\ clauses' = [i \in DOMAIN clauses |-> clause_value(clauses[i], A).clause]
    /\ formula' = clauses'
    /\ pc' = "propagate"
    /\ UNCHANGED <<original_clauses, frames, ret, stack, heap, result, rec_outcome,
                   solutions, ivars>>

\* assignments = unit_propagate(clauses, assignments)
UnitPropagate ==
    /\ pc = "propagate"
    /\ LET up == unit_propagate(clauses, assignments)
       IN  /\ clauses' = up.clauses
           /\ assignments' = up.assignments
           /\ result' = Returned(up.assignments)
    /\ pc' = "propagated"
    /\ UNCHANGED <<formula, original_clauses, frames, ret, stack, heap, rec_outcome,
                   solutions, ivars>>

\* Every list of clauses over 1..MaxVar (TriAssignments covers the variables
\* of each clause).
InitUnit ==
    /\ formula \in Formulas
    /\ pc = "flag"
    /\ InitEngine
    /\ InitNoText

NextUnit ==
    \/ FlagUnits
    \/ UnitPropagate

SpecUnit == InitUnit /\ [][NextUnit]_vars

\* ================================================================ claims
\* The meaning of a formula, stated without the evaluator of the program.

\* A clause is true under A when one of its literals is assigned its polarity.
ClauseTrue(c, A) == \E v \in DOMAIN c.data : v \in DOMAIN A /\ A[v] = c.data[v]

AllClausesTrue(F, A) == \A i \in DOMAIN F : ClauseTrue(F[i], A)

\* The variables of a formula: 1..maxVar (none for a formula without literals).
FormulaVars(F) ==
    LET used == UNION {DOMAIN F[i].data : i \in DOMAIN F}
    IN  IF used = {} THEN {} ELSE 1..SetMax(used)

TotalAssignments(F) == [FormulaVars(F) -> {0, 1}]

Models(F) == {T \in TotalAssignments(F) : AllClausesTrue(F, T)}

\* T agrees with the (possibly partial) assignment A wherever A is decided.
Extends(T, A) == \A v \in DOMAIN A : A[v] # None => (v \in DOMAIN T /\ T[v] = A[v])

EngineReturned == pc \in {"rec_done", "it_done"} /\ result.status = "returned"

EngineSAT == EngineReturned /\ result.value # <<>>

EngineUNSAT == EngineReturned /\ result.value = <<>>

\* C1 (soundness): whenever dpll_rec or dpll_iterative returns a non-empty
\* assignment, every clause of the formula it was given is true under that
\* assignment, whichever variables the random decisions picked.
C1_Soundness == EngineSAT => AllClausesTrue(formula, result.value)

\* C1 witness: each engine has returned a non-empty assignment for a formula
\* of two clauses.
C1_Witness ==
    /\ pc = "it_done"
    /\ rec_outcome = SAT
    /\ result.status = "returned"
    /\ result.value # <<>>
    /\ Len(formula) = 2

C3_EnginesAgree ==
    pc \in {"it_done", "it_raised"} =>
        ((rec_outcome = SAT) <=> (result.status = "returned" /\ result.value # <<>>))

\* C3 witness: the two engines both found the formula SAT along different
\* decision orders are not required; here both have answered, one way or the
\* other, for a formula over two variables with two clauses.
C3_Witness ==
    /\ pc = "it_done"
    /\ rec_outcome \in {SAT, UNSAT}
    /\ Len(formula) = 2
    /\ FormulaVars(formula) = 1..2

\* C4 as stated: a non-empty result is total: every variable of 1..maxVar has
\* value 0 or 1.
C4_Total_Original ==
    EngineSAT =>
        /\ DOMAIN result.value = FormulaVars(formula)
        /\ \A v \in DOMAIN result.value : result.value[v] \in {0, 1}

\* C4 amended: a non-empty result has an entry for every variable of
\* 1..maxVar, each 0, 1 or None; variables may be left unassigned (None), and
\* then every total completion of the result makes every clause true.
C4_Total ==
    EngineSAT =>
        /\ DOMAIN result.value = FormulaVars(formula)
        /\ \A v \in DOMAIN result.value : result.value[v] \in {0, 1, None}
        /\ \A T \in TotalAssignments(formula) :
              Extends(T, result.value) => AllClausesTrue(formula, T)

\* C4 witness: an engine returned a non-empty assignment that leaves a
\* variable unassigned.
C4_Witness ==
    /\ EngineSAT
    /\ \E v \in DOMAIN result.value : result.value[v] = None

\* ------------------------------------------------------------ enumeration
\* Number of total assignments a (possibly partial) assignment stands for:
\* 2 to the number of its undecided variables.
RECURSIVE Pow2(_)
Pow2(n) == IF n = 0 THEN 1 ELSE 2 * Pow2(n - 1)

CubeSize(A) == Pow2(Cardinality({v \in DOMAIN A : A[v] = None}))

RECURSIVE SumCubeSizes(_)
SumCubeSizes(sols) ==
    IF sols = <<>> THEN 0 ELSE CubeSize(Head(sols)) + SumCubeSizes(Tail(sols))

PairwiseDistinct(sols) ==
    \A i, j \in DOMAIN sols : i # j => sols[i] # sols[j]

\* A clause is falsified by an assignment: every literal of it is decided
\* against its polarity.
Falsified(c, A) ==
    \A v \in DOMAIN c.data : v \in DOMAIN A /\ A[v] \in {0, 1} /\ A[v] # c.data[v]

\* The blocking clause find_all_SAT appended for its i-th solution.
BlockingClauseOf(i) == clauses[Len(formula) + i]

\* C5 as stated: find_all_SAT returns pairwise distinct assignments whose
\* number is the number of total assignments over 1..maxVar that satisfy F
\* (maxVar exists for a formula with at least one clause).
C5_Count_Original ==
    (pc = "fa_done" /\ formula # <<>>) =>
        /\ PairwiseDistinct(result.value)
        /\ Len(result.value) = Cardinality(Models(formula))

\* C5 amended: for a formula with at least one clause, find_all_SAT returns
\* pairwise distinct assignments, possibly partial; a returned assignment
\* with k undecided variables stands for its 2^k total completions, and these
\* numbers add up to the brute-force count, so the number of returned
\* assignments is at most that count and equals it when all are total.
C5_Count ==
    (pc = "fa_done" /\ formula # <<>>) =>
        /\ PairwiseDistinct(result.value)
        /\ SumCubeSizes(result.value) = Cardinality(Models(formula))
        /\ Len(result.value) <= Cardinality(Models(formula))

\* C5 witness: find_all_SAT returned more than one solution, one of them
\* partial.
C5_Witness ==
    /\ pc = "fa_done"
    /\ Len(result.value) >= 2
    /\ \E i \in DOMAIN result.value : CubeSize(result.value[i]) > 1

\* C6 as stated: the blocking clause built from a solution A is falsified by
\* A and by no other total assignment over the formula's variables.
C6_Blocking_Original ==
    \A i \in DOMAIN solutions :
        /\ Falsified(BlockingClauseOf(i), solutions[i])
        /\ \A T \in TotalAssignments(formula) :
              Falsified(BlockingClauseOf(i), T) => T = solutions[i]

\* C6 amended: the blocking clause built from a solution A is falsified by A
\* and by exactly the total assignments that agree with A on every variable A
\* decides (A alone when A is total).
C6_Blocking ==
    \A i \in DOMAIN solutions :
        /\ Falsified(BlockingClauseOf(i), solutions[i])
        /\ \A T \in TotalAssignments(formula) :
              Falsified(BlockingClauseOf(i), T) <=> Extends(T, solutions[i])

\* C6 witness: a blocking clause was appended for a partial solution and the
\* search went on to a second solution.
C6_Witness ==
    /\ Len(solutions) >= 2
    /\ Len(clauses) = Len(formula) + Len(solutions)
    /\ CubeSize(solutions[1]) > 1


\* ------------------------------------------------------ claims on the encoder
\* The term list has been converted: formula is convert_SOP_to_CNF's result.
Converted == sop_clauses # <<>> /\ formula # <<>>

InputMax == find_maximum_literal(sop_clauses)

NumTerms == Len(sop_clauses)

\* Some clause of the formula is exactly this dict.
HasClause(d) == \E i \in DOMAIN formula : formula[i].data = d

\* The clauses that define variable z as the AND of the literals of term.
IsAndGateOutput(term, z) ==
    /\ \A x \in DOMAIN term.data :
          HasClause([v \in {x, z} |-> IF v = z THEN NEG_LIT ELSE term.data[x]])
    /\ HasClause([v \in DOMAIN term.data \cup {z} |->
                     IF v = z THEN POS_LIT ELSE 1 - term.data[v]])

\* C8: for k >= 1 product terms with largest input index m, the CNF returned
\* by convert_SOP_to_CNF has largest variable index exactly m + k + 1, the
\* variables m+1..m+k are exactly the AND-gate outputs (m+i is defined as the
\* AND of term i, the variables above m are exactly m+1..m+k+1, and the OR gate
\* of m+k+1 takes exactly m+1..m+k as inputs), and the CNF holds the unit clause that asserts variable m + k + 1 positively.
C8_OutputIndex ==
    Converted =>
        /\ find_maximum_literal(formula) = InputMax + NumTerms + 1
        /\ FormulaVars(formula) \ (1..InputMax) = (InputMax + 1)..(InputMax + NumTerms + 1)
        /\ \A i \in 1..NumTerms : IsAndGateOutput(sop_clauses[i], InputMax + i)
        /\ HasClause([v \in (InputMax + 1)..(InputMax + NumTerms + 1) |->
                         IF v = InputMax + NumTerms + 1 THEN NEG_LIT ELSE POS_LIT])
        /\ HasClause([v \in {InputMax + NumTerms + 1} |-> POS_LIT])

\* C8 witness: two terms over the inputs x1, x2 have been converted.
C8_Witness == Converted /\ NumTerms = 2 /\ InputMax = 2 /\ pc = "rec_call"

\* A product term is true under A when A gives each of its literals its polarity.
TermTrue(term, A) ==
    \A v \in DOMAIN term.data : v \in DOMAIN A /\ A[v] = term.data[v]

\* S is satisfiable as a boolean expression: some valuation of the inputs
\* makes some product term true.
SOPSatisfiable ==
    \E T \in [1..InputMax -> {0, 1}] : \E i \in 1..NumTerms : TermTrue(sop_clauses[i], T)

\* C9: for a term list S that convert_SOP_to_CNF turns into a CNF, dpll_rec
\* and dpll_iterative report that CNF SAT iff S is satisfiable as a boolean
\* expression, and in every non-empty assignment they return the values of the
\* input variables of S make at least one product term of S true.
C9_Encoding ==
    (Converted /\ EngineReturned) =>
        /\ EngineSAT <=> SOPSatisfiable
        /\ EngineSAT => \E i \in 1..NumTerms : TermTrue(sop_clauses[i], result.value)

\* C9 witness: both engines have returned an assignment for the CNF of two
\* terms, one of them with a negated literal.
C9_Witness ==
    /\ Converted
    /\ pc = "it_done"
    /\ rec_outcome = SAT
    /\ EngineSAT
    /\ NumTerms = 2
    /\ \E i \in 1..NumTerms : \E v \in DOMAIN sop_clauses[i].data :
          sop_clauses[i].data[v] = NEG_LIT

\* The text is one product term (no '+') that names some variable with both
\* polarities.
ContradictoryTerm ==
    /\ ~parse_SOP_string_raises(text)
    /\ Len(split_plus(text, <<>>)) = 1
    /\ LET literals == lit_findall(text, 1)
       IN  \E a, b \in DOMAIN literals :
              /\ literals[a].i = literals[b].i
              /\ literals[a].prefix
              /\ ~literals[b].prefix

\* C10: a product term that names a variable with both polarities is accepted
\* by parse_SOP_string without error, and a formula that is only such a term
\* is reported UNSAT after encoding and solving.
C10_ContradictoryTermUNSAT ==
    ContradictoryTerm =>
        /\ pc # "parse_raised"
        /\ EngineReturned => EngineUNSAT


\* ------------------------------------------- claims on the equivalence check
\* The value of the SOP function under a valuation of its inputs.
SOPValue(terms, T) == \E i \in DOMAIN terms : TermTrue(terms[i], T)

\* The two functions agree on every valuation of the inputs 1..n, n the larger
\* of the two input_max.
SameTruthTable ==
    \A T \in [1..SetMax({cnf1.input_max, cnf2.input_max}) -> {0, 1}] :
        SOPValue(cnf1.sop_clauses, T) = SOPValue(cnf2.sop_clauses, T)

\* The output variable of an encoded function, as xor_CNF_functions takes it.
OutputOf(cl) == find_maximum_literal(cl.cnf_clauses)

EquivalenceReturned == pc = "it_done" /\ result.status = "returned" /\ text2 # <<>>

\* C7: boolean_functions_are_equivalent returns the empty result iff the two
\* functions have identical truth tables over their shared input variables,
\* and any non-empty assignment it returns gives the output variables a_out
\* and b_out of the two functions different values.
C7_Equivalence ==
    EquivalenceReturned =>
        /\ (result.value = <<>>) <=> SameTruthTable
        /\ result.value # <<>> =>
              result.value[OutputOf(cnf1)] # result.value[OutputOf(cnf2)]


\* --------------------------------------------- claims on errors of the engines
\* C11: dpll_rec and dpll_iterative never raise: for every list of clauses,
\* clauses without literals included, each finishes by returning an assignment
\* or the empty result, never by an exception.
C11_NeverRaises == result.status # "raised"


\* --------------------------------------------- claims on the clause data model
\* C12: a request to build a clause that lists the same variable as a positive
\* and as a negative literal fails at construction time and produces no clause.
C12_ContradictoryRejected ==
    (req_ones \cap req_zeros # {} /\ pc # "make") =>
        /\ result.status = "raised"
        /\ clauses = <<>>

\* A literal of c on variable v is true, false under A (it is neither when v
\* is unassigned).
LiteralTrue(c, A, v) == A[v] \in {0, 1} /\ A[v] = c.data[v]

LiteralFalse(c, A, v) == A[v] \in {0, 1} /\ A[v] # c.data[v]

ExpectedValue(c, A) ==
    IF \E v \in DOMAIN c.data : LiteralTrue(c, A, v) THEN SAT
    ELSE IF \A v \in DOMAIN c.data : LiteralFalse(c, A, v) THEN UNSAT
    ELSE UNDECIDED

ClauseEvaluated == pc = "eval" /\ result.status = "returned"

\* C13: clause_value(c, A) returns SAT iff some literal of c is assigned the
\* value matching its polarity, UNSAT iff every literal of c is assigned and
\* mismatches its polarity (so the clause without literals is UNSAT), and
\* UNDECIDED in every other case; an unassigned literal never counts toward
\* UNSAT.
C13_ClauseValue ==
    ClauseEvaluated =>
        /\ result.value = ExpectedValue(clauses[1], assignments)
        /\ (\E v \in DOMAIN clauses[1].data : assignments[v] = None)
              => result.value # UNSAT
        /\ DOMAIN clauses[1].data = {} => result.value = UNSAT

\* C13 witness: a clause of two literals, one false and one unassigned, has
\* been evaluated (UNDECIDED).
C13_Witness ==
    /\ ClauseEvaluated
    /\ Cardinality(DOMAIN clauses[1].data) = 2
    /\ \E v \in DOMAIN clauses[1].data : LiteralFalse(clauses[1], assignments, v)
    /\ \E v \in DOMAIN clauses[1].data : assignments[v] = None
    /\ result.value = UNDECIDED


\* ------------------------------------------------ claims on unit propagation
\* The variables unit_propagate assigned in this step.
NewlyAssigned ==
    {v \in DOMAIN assignments : assignments[v] = None /\ assignments'[v] # None}

\* The dict d without the literals that the new values of NewlyAssigned make
\* false.
StruckData(d) ==
    [v \in {w \in DOMAIN d : ~(w \in NewlyAssigned /\ d[w] # assignments'[w])} |-> d[v]]

\* clauses' is clauses without the clauses at the indices dropped, each kept
\* clause with its falsified literals struck; kept[k] is where the k-th
\* remaining clause stood.
RemainingFrom(kept) ==
    /\ \A k \in DOMAIN kept : k > 1 => kept[k - 1] < kept[k]
    /\ \A k \in DOMAIN kept :
          /\ clauses'[k].data = StruckData(clauses[kept[k]].data)
          /\ clauses'[k].isUnit = clauses[kept[k]].isUnit
    /\ \A i \in DOMAIN clauses :
          (~\E k \in DOMAIN kept : kept[k] = i) =>
              /\ clauses[i].isUnit
              /\ \E v \in NewlyAssigned :
                    /\ v \in DOMAIN clauses[i].data
                    /\ assignments'[v] = clauses[i].data[v]

UnitPropagateOK ==
    /\ \A v \in NewlyAssigned :
          \E i \in DOMAIN clauses :
              /\ clauses[i].isUnit
              /\ {w \in DOMAIN clauses[i].data : assignments[w] = None} = {v}
              /\ assignments'[v] = clauses[i].data[v]
    /\ \A v \in DOMAIN assignments :
          assignments[v] # None => assignments'[v] = assignments[v]
    /\ \A v \in NewlyAssigned : \A j \in DOMAIN clauses' :
          v \in DOMAIN clauses'[j].data => clauses'[j].data[v] = assignments'[v]
    /\ Len(clauses) - Len(clauses') = Cardinality(NewlyAssigned)
    /\ \E kept \in [1..Len(clauses') -> DOMAIN clauses] : RemainingFrom(kept)
    /\ \A j \in DOMAIN clauses' :
          clauses'[j].isUnit =>
              \A w \in DOMAIN clauses'[j].data : assignments'[w] # None

\* C14: unit_propagate(clauses, A): for every clause flagged as unit that it
\* processes, the single unassigned variable v of the clause gets the value
\* that satisfies the clause (1 for a positive literal, 0 for a negative one),
\* the clause is removed from the list, afterwards no remaining clause holds v
\* with the complementary polarity, and no other variable's value is changed.
C14_UnitPropagate == [][UnitPropagate => UnitPropagateOK]_vars

\* C14 witness: unit_propagate has removed a unit clause and struck the
\* complement of its literal from a clause that stays.
C14_Witness ==
    /\ pc = "propagated"
    /\ Len(formula) = 2
    /\ Len(clauses) = 1
    /\ \E i \in DOMAIN formula :
          Cardinality(DOMAIN clauses[1].data) < Cardinality(DOMAIN formula[i].data)
              /\ formula[i].data # clauses[1].data
              /\ \A j \in DOMAIN formula : j # i => formula[j].isUnit
    /\ \E v \in DOMAIN assignments : assignments[v] # None


\* ----------------------------------------- claims on single-literal formulas
\* Every clause has exactly one literal and the variables are exactly 1..n.
SingleLiteralFormula ==
    /\ formula # <<>>
    /\ \A i \in DOMAIN formula : Cardinality(DOMAIN formula[i].data) = 1
    /\ UNION {DOMAIN formula[i].data : i \in DOMAIN formula} = FormulaVars(formula)

\* Some variable occurs as x and as ~x.
BothPolarities ==
    \E i, j \in DOMAIN formula : \E v \in DOMAIN formula[i].data :
        v \in DOMAIN formula[j].data /\ formula[i].data[v] # formula[j].data[v]

\* The value the clause of variable v requires.
RequiredValue(v) ==
    LET i == CHOOSE k \in DOMAIN formula : v \in DOMAIN formula[k].data
    IN  formula[i].data[v]

\* C15: for a CNF of single-literal clauses whose variables are exactly 1..n,
\* dpll_rec and dpll_iterative each return exactly the total assignment that
\* gives every variable the value its clause requires when no variable occurs
\* with both polarities, and the empty result {} when some variable does.
C15_SingleLiterals ==
    SingleLiteralFormula =>
        /\ result.status # "raised"
        /\ EngineReturned =>
              result.value = IF BothPolarities THEN <<>>
                             ELSE [v \in FormulaVars(formula) |-> RequiredValue(v)]

\* C15 witness: both engines have answered [(x1), (~x2)] or a formula like it:
\* two single-literal clauses over x1 and x2, one positive and one negative.
C15_Witness ==
    /\ SingleLiteralFormula
    /\ ~BothPolarities
    /\ pc = "it_done"
    /\ rec_outcome = SAT
    /\ EngineSAT
    /\ FormulaVars(formula) = 1..2
    /\ \E v, w \in 1..2 : RequiredValue(v) = 1 /\ RequiredValue(w) = 0

\* ------------------------------------------------ claims on the empty list
\* C16: called on the empty clause list, dpll_rec and dpll_iterative each
\* return the empty dictionary {} without raising.
C16_EmptyList ==
    formula = <<>> =>
        /\ result.status # "raised"
        /\ pc \notin {"rec_raised", "it_raised"}
        /\ pc = "rec_ret" => ret = <<>>
        /\ EngineReturned => result.value = <<>>

\* C16 witness: both engines have returned for the empty clause list.
C16_Witness ==
    /\ formula = <<>>
    /\ pc = "it_done"
    /\ rec_outcome = UNSAT
    /\ result = Returned(<<>>)


\* ------------------------------------------------------ claims on the parser
\* The pieces a text is written with, read off from the left: '~xd', 'xd' or
\* a single separator character.
RECURSIVE PiecesOf(_)
PiecesOf(txt) ==
    IF txt = <<>> THEN <<>>
    ELSE LET n == IF Head(txt) = "~" THEN 3 ELSE IF Head(txt) = "x" THEN 2 ELSE 1
         IN  <<SubSeq(txt, 1, n)>> \o PiecesOf(SubSeq(txt, n + 1, Len(txt)))

\* The pieces grouped into the '+'-separated terms, in the order written.
RECURSIVE TermsOf(_, _)
TermsOf(pieces, current) ==
    IF pieces = <<>> THEN <<current>>
    ELSE IF Head(pieces) = <<"+">> THEN <<current>> \o TermsOf(Tail(pieces), <<>>)
    ELSE TermsOf(Tail(pieces), Append(current, Head(pieces)))

WrittenTerms == TermsOf(PiecesOf(text), <<>>)

\* The variables a term writes un-negated, and those it writes with '~'.
WrittenPlain(term) ==
    {IntOfDigits(<<term[k][2]>>) : k \in {j \in DOMAIN term : term[j][1] = "x"}}

WrittenNegated(term) ==
    {IntOfDigits(<<term[k][3]>>) : k \in {j \in DOMAIN term : term[j][1] = "~"}}

Parsed == pc = "convert"

NestedCallReturnedUNSAT == pc = "rec_ret" /\ ret = <<>> /\ frames # <<>>

\* C18: whenever a call of dpll_rec that received a partial assignment returns
\* {}, the shared assignment dict holds exactly the values it held when that
\* call began: the decision of that call and every deeper decision are
\* unassigned again, so the sibling branch starts from the parent's assignment
\* plus only its own decision.
C18_BacktrackRestores ==
    NestedCallReturnedUNSAT => assignments = frames[Len(frames)].given

\* C18 witness: a nested call that took a decision of its own, tried both
\* values and undid it has returned {} (no clause is UNSAT under the
\* assignment it was given, so it did not return at once).
C18_Witness ==
    /\ NestedCallReturnedUNSAT
    /\ assignments = frames[Len(frames)].given
    /\ \E v \in DOMAIN assignments : assignments[v] = None
    /\ \A i \in DOMAIN formula : clause_value(formula[i], assignments).value # UNSAT


\* --------------------------------------- claims on the explicit stack
\* No dict object is on the stack twice.
DistinctObjects == \A i, j \in DOMAIN stack : i # j => stack[i] # stack[j]

\* dpll_iterative pops an entry and processes it.
ProcessEntry == pc = "it_loop" /\ stack # <<>>

\* The entries under the popped one are the same objects with the same
\* contents after the step.
RestUntouched ==
    \A i \in 1..(Len(stack) - 1) :
        /\ i \in DOMAIN stack'
        /\ stack'[i] = stack[i]
        /\ heap'[stack'[i]] = heap[stack[i]]

\* The step pushed two entries made from parent: for one variable xi that
\* parent leaves unassigned they are parent with xi = 1 and, on top of it,
\* parent with xi = 0.
PushedPairFrom(parent, below) ==
    /\ Len(stack') = below + 2
    /\ \E xi \in DOMAIN parent :
         /\ parent[xi] = None
         /\ heap'[stack'[below + 1]] = [parent EXCEPT ![xi] = 1]
         /\ heap'[stack'[below + 2]] = [parent EXCEPT ![xi] = 0]

\* C19: in dpll_iterative the two entries pushed for a decision variable xi
\* agree with the popped assignment (with the all-undecided assignment, for
\* the first decision) on every other variable and differ from each other
\* only at xi (1 and 0); no two stack entries are the same mutable object;
\* processing one entry never changes an entry still on the stack.
C19_NoInterference ==
    /\ []DistinctObjects
    /\ [][/\ ProcessEntry => RestUntouched
          /\ (ProcessEntry /\ Len(stack') > Len(stack) - 1)
                => PushedPairFrom(heap[stack[Len(stack)]], Len(stack) - 1)
          /\ (pc = "it_start" /\ pc' = "it_loop")
                => PushedPairFrom(all_undecided(clauses), 0)]_vars

\* C19 witness: a decision was taken while another entry waited on the stack:
\* three distinct objects, the waiting one differing from both new ones.
C19_Witness ==
    /\ pc = "it_loop"
    /\ Len(stack) = 3
    /\ DistinctObjects
    /\ heap[stack[1]] # heap[stack[2]]
    /\ heap[stack[1]] # heap[stack[3]]
    /\ \E xi \in DOMAIN heap[stack[3]] :
         /\ heap[stack[2]][xi] = 1
         /\ heap[stack[3]] = [heap[stack[2]] EXCEPT ![xi] = 0]


\* ------------------------------------------------- claims on termination
\* The variables an assignment gives a value to.
Assigned(asg) == {v \in DOMAIN asg : asg[v] # None}

\* The run is over: find_all_SAT returned (or the exception of dpll_rec left
\* it), or both engines have returned or raised.
Terminated ==
    IF find_all THEN pc \in {"fa_done", "rec_raised"}
                ELSE pc \in {"it_done", "it_raised"}

\* Every suspended call of dpll_rec handed its callee an assignment with
\* strictly more assigned variables than the one it had received itself.
RecursionDeeper ==
    \A i \in DOMAIN frames :
        LET parent == IF i = 1 THEN {} ELSE Assigned(frames[i - 1].given)
        IN  parent \subseteq Assigned(frames[i].given) /\ parent # Assigned(frames[i].given)

\* Every entry dpll_iterative pushes has strictly more assigned variables than
\* the entry it was made from (than the all-undecided assignment, at first).
PushDeeper ==
    /\ (ProcessEntry /\ Len(stack') > Len(stack) - 1) =>
          \A i \in Len(stack)..Len(stack') :
              LET parent == Assigned(heap[stack[Len(stack)]])
              IN  parent \subseteq Assigned(heap'[stack'[i]]) /\ parent # Assigned(heap'[stack'[i]])
    /\ (pc = "it_start" /\ pc' = "it_loop") =>
          \A i \in DOMAIN stack' : Assigned(heap'[stack'[i]]) # {}

\* C20: for every finite CNF formula dpll_rec and dpll_iterative end after
\* finitely many steps, every branch pushed or recursed into having strictly
\* more assigned variables than its parent, and the solve-then-block loop of
\* find_all_SAT stops after finitely many solutions.
C20_Termination ==
    /\ <>Terminated
    /\ []RecursionDeeper
    /\ [][PushDeeper]_vars

\* C20 witness: find_all_SAT went round its solve-then-block loop at least
\* three times (two solutions, then {}) and returned.
C20_Witness ==
    /\ find_all
    /\ pc = "fa_done"
    /\ Len(solutions) >= 2
    /\ result = Returned(solutions)


\* ------------------------------------------- claims on what changes the formula
\* Two clauses hold the same literals (their unit flags may differ).
SameLiterals(c, d) == c.data = d.data /\ c.keys = d.keys

\* dpll_iterative is running or has ended.
InIterative == ~find_all /\ pc \in {"it_start", "it_loop", "it_done", "it_raised"}

\* C21: dpll_iterative never adds, removes or alters a clause's literals;
\* find_all_SAT changes the caller's clause list only by appending one
\* blocking clause per solution found, so on return the list length is the
\* original length plus the number of solutions returned and the original
\* clauses form an unchanged prefix.
C21_FrameEffect ==
    /\ InIterative =>
          /\ Len(clauses) = Len(formula)
          /\ \A i \in DOMAIN formula : SameLiterals(clauses[i], formula[i])
    /\ find_all =>
          /\ Len(clauses) = Len(formula) + Len(solutions)
          /\ SubSeq(clauses, 1, Len(formula)) = formula
          /\ \A i \in DOMAIN solutions :
                clauses[Len(formula) + i] = make_blocking_clause(solutions[i])
    /\ (find_all /\ pc = "fa_done") =>
          /\ result = Returned(solutions)
          /\ Len(clauses) = Len(formula) + Len(result.value)

\* C21 witness: find_all_SAT returned two or more solutions for a formula of
\* two clauses; the caller's list is those two clauses and then the blocking
\* clauses.
C21_Witness ==
    /\ find_all
    /\ pc = "fa_done"
    /\ Len(formula) = 2
    /\ Len(result.value) >= 2
    /\ SubSeq(clauses, 1, 2) = formula
    /\ Len(clauses) = 2 + Len(result.value)


\* ------------------------------------ claims on unit propagation in dpll_rec
\* dpll_rec is running or its top-level call has returned.
InRec == pc \in {"rec_call", "rec_ret", "rec_done"}

\* The caller's list as it was handed over: the formula, then the blocking
\* clauses find_all_SAT has appended between the calls.
HandedClauses ==
    formula \o [i \in DOMAIN solutions |-> make_blocking_clause(solutions[i])]

\* The decisions of the suspended calls, each with the value being tried.
DecidedBy(fs) == {fs[i].xi : i \in DOMAIN fs}

\* A call of dpll_rec is about to run on an assignment that exists (given by
\* the caller, or made by all_undecided without raising).
CallRuns == pc = "rec_call" /\ (assignments = <<>> => ~all_undecided_raises(clauses))

StartAssignment == IF assignments = <<>> THEN all_undecided(clauses) ELSE assignments

\* In every state of dpll_rec the caller's list is as handed over and carries
\* no unit flag; unit_propagate on it changes neither list nor assignment; the
\* assigned variables are exactly the decisions of the suspended calls, with
\* the value of the branch being tried; a non-empty result is that dict.
NoPropagationInRec ==
    /\ InRec =>
          /\ clauses = HandedClauses
          /\ \A i \in DOMAIN clauses : ~clauses[i].isUnit
    /\ CallRuns =>
          /\ unit_propagate(clauses, StartAssignment)
                = [clauses |-> clauses, assignments |-> StartAssignment]
          /\ Assigned(StartAssignment) = DecidedBy(frames)
          /\ \A i \in DOMAIN frames :
                StartAssignment[frames[i].xi] = IF frames[i].line = 499 THEN 1 ELSE 0
    /\ (pc = "rec_ret" /\ ret # <<>>) => ret = assignments
    /\ (pc = "rec_done" /\ result.value # <<>>) => result.value = assignments

\* A step of dpll_rec assigns no variable but the one it has just decided.
OnlyDecisionsAssign ==
    pc \in {"rec_call", "rec_ret"} =>
        Assigned(assignments') \ Assigned(assignments)
            \subseteq (IF Len(frames') > Len(frames)
                       THEN {frames'[Len(frames')].xi} ELSE {})

CoveredBy(T) == {i \in DOMAIN result.value : Extends(T, result.value[i])}

\* Two assignments give opposite values to a variable both decide.
Clash(A, B) ==
    \E v \in DOMAIN A \cap DOMAIN B : A[v] # None /\ B[v] # None /\ A[v] # B[v]

\* find_all_SAT has returned for a formula that has a maxVar.
AllSolutionsReturned == pc = "fa_done" /\ formula # <<>>

\* C23: the partial assignments find_all_SAT returns on F are an exact
\* disjoint cover of F's models: every total assignment over 1..maxVar that
\* satisfies F agrees with exactly one returned assignment on the variables
\* it decides, every total extension of a returned assignment satisfies F,
\* two returned assignments clash on a variable decided in both, and the
\* numbers 2^(undecided variables) add up to the brute-force model count.
C23_ExactCover ==
    AllSolutionsReturned =>
        /\ \A T \in Models(formula) : Cardinality(CoveredBy(T)) = 1
        /\ \A T \in TotalAssignments(formula) :
              CoveredBy(T) # {} => T \in Models(formula)
        /\ \A i, j \in DOMAIN result.value :
              i # j => Clash(result.value[i], result.value[j])
        /\ SumCubeSizes(result.value) = Cardinality(Models(formula))

\* C23 witness: two or more assignments were returned, one of them partial,
\* for a formula that some total assignment falsifies, so the cover has fewer
\* members than there are models and is not everything.
C23_Witness ==
    /\ AllSolutionsReturned
    /\ Len(result.value) >= 2
    /\ Len(result.value) < Cardinality(Models(formula))
    /\ Models(formula) # TotalAssignments(formula)
    /\ \A T \in Models(formula) : Cardinality(CoveredBy(T)) = 1

====
